---- MODULE Spec2Model ----
(***************************************************************************)
(* Model of the dioxus CLI development server, packages/cli/src/server/    *)
(* mod.rs: the two file-watcher callbacks (setup_file_watcher and          *)
(* setup_file_watcher_hot_reload), BuildManager::rebuild, the reload       *)
(* broadcast channel and the websocket session task of ws_handler.         *)
(***************************************************************************)
EXTENDS Integers, Sequences, FiniteSets, TLC

\* ---------------------------------------------------------------- bounds
\* last second of the modelled wall clock (chrono::Local::now().timestamp())
MaxTime == 3
\* number of notify events produced in one behaviour
MaxEvents == 3
\* largest number of paths carried by one notify event
MaxPaths == 2
\* largest number of configured watch roots (watch_path)
MaxRoots == 3
\* backlog of the broadcast channel; the program uses 100 (mod.rs:105,152),
\* scaled down so that an overflow is reachable
Capacity == 2

\* ------------------------------------------------------------- data
\* changed files: two Rust sources and one asset
Files == {"a.rs", "b.rs", "c.css"}
RustFiles == {"a.rs", "b.rs"}
\* literal content of the single template of a source file
Vals == {"x", "y"}
\* what a re-parse of a source file finds on disk
Parsed == Vals \cup {"structural", "malformed"}
Sessions == {1, 2}

\* a test that recognises one source file only
IsRustOnlyA(path) == path = "a.rs"

\* path.extension().and_then(|p| p.to_str()) != Some("rs")
IsRust(path) == path \in RustFiles

PathSeqs == UNION {[1..n -> Files] : n \in 0..MaxPaths}

\* notify::Result<notify::Event>: Ok(event with paths) or Err
EventInputs == {[ok |-> TRUE, paths |-> p] : p \in PathSeqs}
                 \cup {[ok |-> FALSE, paths |-> <<>>]}

NoEvent == [ok |-> FALSE, paths |-> <<>>, trailing |-> FALSE, stamp |-> 0]

\* FileMap::update_rsx as the specification describes it: a malformed file
\* is an error and a structural change asks for a rebuild, both leaving the
\* stored entry alone; a literal change replaces the entry and returns the
\* changed records.
update_rsx(map, path, parsed) ==
    IF parsed = "malformed" THEN [kind |-> "Err", msgs |-> <<>>, map |-> map]
    ELSE IF parsed = "structural"
         THEN [kind |-> "NeedsRebuild", msgs |-> <<>>, map |-> map]
    ELSE [kind |-> "UpdatedRsx",
          msgs |-> IF map[path] = parsed THEN <<>>
                   ELSE <<[file |-> path, val |-> parsed]>>,
          map  |-> [map EXCEPT ![path] = parsed]]

VARIABLES
    hot_reload,        \* config.hot_reload: which watcher was set up
    reload_html,       \* config.dioxus_config.web.watcher.reload_html
    now,               \* the wall clock in seconds
    last_update_time,  \* the captured debounce timestamp
    queue,             \* notify events waiting for the callback; of each,
                       \* whether it arrived while a rebuild was executing
    arrived,           \* number of notify events produced so far
    cur,               \* the event the callback is handling
    pc,                \* position of the watcher callback
    idx,               \* index of the next path of evt.paths
    messages,          \* Vec<Template> accumulated by the callback
    file_map,          \* FileMap: stored template per source file
    map_lock,          \* holder of the file_map mutex
    site,              \* which call of rebuild() is executing
    result,            \* Result returned by rebuild()
    running,           \* number of rebuild() executions in flight
    tail,              \* reload channel: position of the next message
    sess,              \* per session: task state, receiver position, the
                       \* channel position at subscribe(), the number of
                       \* "reload" signals sent, and whether the session
                       \* had read everything at every publication so far
    ev,                \* what the callback did for the current event
    burst,             \* timestamp of the latest dispatched event and the
                       \* number of events dispatched with that timestamp
    unpublished,       \* successful builds minus FullReload publications
    phase,             \* "setup" while the watcher is set up, then "serving",
                       \* or "aborted" when the set-up panicked
    watch_ok,          \* per configured root: whether watcher.watch() works
    sub_path,          \* index of the next root of allow_watch_path
    watched            \* the roots registered with the watcher

vars == <<hot_reload, reload_html, now, last_update_time, queue, arrived, cur,
          pc, idx, messages, file_map, map_lock, site, result, running, tail,
          sess, ev, burst, unpublished, phase, watch_ok, sub_path, watched>>

config == <<hot_reload, reload_html>>
startup == <<phase, watch_ok, sub_path, watched>>
locals == <<cur, idx, messages, site, result, ev>>
watcherVars == <<last_update_time, queue, cur, pc, idx, messages, file_map,
                 map_lock, site, result, running, ev, burst, unpublished>>

ZeroEv == [rebuilds |-> 0, builds_ok |-> 0, regens |-> 0, reloads |-> 0,
           updates |-> 0, patched |-> 0, errs |-> 0, hot |-> 0,
           sent |-> <<>>, yielded |-> <<>>]

InitServer ==
    /\ hot_reload \in BOOLEAN
    /\ reload_html \in BOOLEAN
    /\ now = 0
    /\ last_update_time = 0
    /\ queue = <<>>
    /\ arrived = 0
    /\ cur = NoEvent
    /\ pc = "idle"
    /\ idx = 1
    /\ messages = <<>>
    /\ file_map = [f \in RustFiles |-> "x"]
    /\ map_lock = "free"
    /\ site = "none"
    /\ result = "none"
    /\ running = 0
    /\ tail = 0
    /\ sess = [s \in Sessions |-> [st |-> "closed", next |-> 0, sub |-> 0,
                                   sent |-> 0, prompt |-> TRUE]]
    /\ ev = ZeroEv
    /\ burst = [stamp |-> 0, n |-> 0]
    /\ unpublished = 0

\* the server once the watcher was set up on the default root "src"
Init ==
    /\ InitServer
    /\ phase = "serving"
    /\ watch_ok = <<TRUE>>
    /\ sub_path = 2
    /\ watched = {1}

\* ------------------------------------------------------------ environment
\* the wall clock advances by one second
Tick ==
    /\ now < MaxTime
    /\ now' = now + 1
    /\ UNCHANGED <<config, startup, arrived, tail, sess>>
    /\ UNCHANGED watcherVars

\* the file system reports a change; the event waits until the callback,
\* which notify runs on one thread, is free
Arrive ==
    /\ arrived < MaxEvents
    /\ queue' = Append(queue, running > 0)
    /\ arrived' = arrived + 1
    /\ UNCHANGED <<config, startup, now, last_update_time, pc, file_map, map_lock,
                   running, tail, sess, burst, unpublished>>
    /\ UNCHANGED locals

\* ------------------------------------------------------- BuildManager
\* number of live receivers of the reload channel
rx_cnt == Cardinality({s \in Sessions : sess[s].st \in {"recv", "send"}})

\* the first rebuild() or update_rsx() call made for the current event
Dispatch(t) ==
    IF ev.rebuilds + ev.updates > 0 THEN burst
    ELSE IF burst.n > 0 /\ burst.stamp = t
         THEN [burst EXCEPT !.n = @ + 1]
         ELSE [stamp |-> t, n |-> 1]

\* build_manager.rebuild() is entered from call site s
RebuildCall(s) ==
    /\ pc' = "build"
    /\ site' = s
    /\ running' = running + 1
    /\ burst' = Dispatch(cur.stamp)

\* Build with the host-page regeneration skipped
BuildSkipRegen ==
    /\ pc = "build"
    /\ \E ok \in BOOLEAN :
         IF ok
         THEN /\ ev' = [ev EXCEPT !.builds_ok = @ + 1]
              /\ unpublished' = unpublished + 1
              /\ pc' = "send"
              /\ UNCHANGED <<result, running>>
         ELSE /\ result' = "Err"
              /\ running' = running - 1
              /\ pc' = "ret"
              /\ UNCHANGED <<ev, unpublished>>
    /\ UNCHANGED <<config, startup, now, last_update_time, queue, arrived, cur, idx,
                   messages, file_map, map_lock, site, tail, sess, burst>>

\* Build whose error does not leave rebuild(): the reload is still sent
BuildErrStillSends ==
    /\ pc = "build"
    /\ \E ok \in BOOLEAN :
         IF ok
         THEN /\ ev' = [ev EXCEPT !.builds_ok = @ + 1]
              /\ unpublished' = unpublished + 1
              /\ pc' = IF reload_html THEN "regen" ELSE "send"
         ELSE /\ pc' = "send"
              /\ UNCHANGED <<ev, unpublished>>
    /\ UNCHANGED <<config, startup, now, last_update_time, queue, arrived, cur, idx,
                   messages, file_map, map_lock, site, result, running, tail,
                   sess, burst>>

\* builder::build(&self.config, true)? returns
Build ==
    /\ pc = "build"
    /\ \E ok \in BOOLEAN :
         IF ok
         THEN /\ ev' = [ev EXCEPT !.builds_ok = @ + 1]
              /\ unpublished' = unpublished + 1
              /\ pc' = IF reload_html THEN "regen" ELSE "send"
              /\ UNCHANGED <<result, running>>
         ELSE /\ result' = "Err"
              /\ running' = running - 1
              /\ pc' = "ret"
              /\ UNCHANGED <<ev, unpublished>>
    /\ UNCHANGED <<config, startup, now, last_update_time, queue, arrived, cur, idx,
                   messages, file_map, map_lock, site, tail, sess, burst>>

\* let _ = Serve::regen_dev_page(&self.config)
RegenDevPage ==
    /\ pc = "regen"
    /\ ev' = [ev EXCEPT !.regens = @ + 1]
    /\ pc' = "send"
    /\ UNCHANGED <<config, startup, now, last_update_time, queue, arrived, cur, idx,
                   messages, file_map, map_lock, site, result, running, tail,
                   sess, burst, unpublished>>

\* ReloadSend with the error of send() propagated instead of ignored
ReloadSendPropagates ==
    /\ pc = "send"
    /\ tail' = IF rx_cnt > 0 THEN tail + 1 ELSE tail
    /\ ev' = [ev EXCEPT !.reloads = @ + 1]
    /\ unpublished' = unpublished - 1
    /\ result' = IF rx_cnt > 0 THEN "Ok" ELSE "Err"
    /\ running' = running - 1
    /\ pc' = "ret"
    /\ UNCHANGED <<config, startup, now, last_update_time, queue, arrived, cur, idx,
                   messages, file_map, map_lock, site, sess, burst>>

\* the session waits in recv() with nothing left to read
CaughtUp(s) == sess[s].st = "recv" /\ sess[s].next = tail

\* let _ = self.reload_tx.send(()); Ok(result)
\* a broadcast send with no receiver stores nothing and its error is ignored
ReloadSend ==
    /\ pc = "send"
    /\ tail' = IF rx_cnt > 0 THEN tail + 1 ELSE tail
    /\ sess' = [s \in Sessions |->
                 IF sess[s].st \in {"recv", "send"} /\ ~CaughtUp(s)
                 THEN [sess[s] EXCEPT !.prompt = FALSE] ELSE sess[s]]
    /\ ev' = [ev EXCEPT !.reloads = @ + 1]
    /\ unpublished' = unpublished - 1
    /\ result' = "Ok"
    /\ running' = running - 1
    /\ pc' = "ret"
    /\ UNCHANGED <<config, startup, now, last_update_time, queue, arrived, cur, idx,
                   messages, file_map, map_lock, site, burst>>

\* ------------------------------------------------------------- watcher
\* a callback that may be entered again while it is still running
CallbackReentrant == pc \in {"idle", "build"}

\* the callback is an FnMut closure: notify runs it for one event at a time
CallbackIdle == pc = "idle"

\* the callback returns and its locals are dropped
Return ==
    /\ pc' = "idle"
    /\ cur' = NoEvent
    /\ idx' = 1
    /\ messages' = <<>>
    /\ site' = "none"
    /\ result' = "none"
    /\ ev' = ZeroEv

\* notify hands the next event to the callback
WatcherDeliver ==
    /\ CallbackIdle
    /\ queue # <<>>
    /\ \E e \in EventInputs :
         cur' = [ok |-> e.ok, paths |-> e.paths, trailing |-> Head(queue),
                 stamp |-> 0]
    /\ queue' = Tail(queue)
    /\ pc' = "check"
    /\ UNCHANGED <<config, startup, now, last_update_time, arrived, idx, messages,
                   file_map, map_lock, site, result, running, tail, sess, ev,
                   burst, unpublished>>

\* chrono::Local::now().timestamp() > last_update_time
Accepts(t, last) == t > last

\* setup_file_watcher: if let Ok(e) = info { if now > last_update_time {
\*   match build_manager.rebuild()
PlainCheck ==
    /\ ~hot_reload
    /\ pc = "check"
    /\ IF cur.ok /\ Accepts(now, last_update_time)
       THEN /\ cur' = [cur EXCEPT !.stamp = now]
            /\ burst' = Dispatch(now)
            /\ pc' = "build"
            /\ site' = "plain"
            /\ running' = running + 1
            /\ ev' = [ev EXCEPT !.rebuilds = @ + 1]
            /\ UNCHANGED <<idx, messages, result>>
       ELSE /\ Return
            /\ UNCHANGED <<running, burst>>
    /\ UNCHANGED <<config, startup, now, last_update_time, queue, arrived, file_map,
                   map_lock, tail, sess, unpublished>>

\* setup_file_watcher: Ok(res) => last_update_time = now, Err(e) => log
PlainAfterRebuild ==
    /\ pc = "ret"
    /\ site = "plain"
    /\ last_update_time' = IF result = "Ok" THEN now ELSE last_update_time
    /\ Return
    /\ UNCHANGED <<config, startup, now, queue, arrived, file_map, map_lock, running,
                   tail, sess, burst, unpublished>>

\* setup_file_watcher_hot_reload: if now > last_update_time { if let Ok(evt)
HotCheck ==
    /\ hot_reload
    /\ pc = "check"
    /\ IF Accepts(now, last_update_time)
       THEN /\ cur' = [cur EXCEPT !.stamp = now]
            /\ pc' = IF cur.ok THEN "loop" ELSE "stamp"
            /\ UNCHANGED <<idx, messages, site, result, ev>>
       ELSE Return
    /\ UNCHANGED <<config, startup, now, last_update_time, queue, arrived, file_map,
                   map_lock, running, tail, sess, burst, unpublished>>

\* for path in evt.paths.clone(): a non-Rust path rebuilds, a Rust path
\* takes the file_map lock; after the last path the messages are sent
HotLoop ==
    /\ pc = "loop"
    /\ IF idx > Len(cur.paths)
       THEN /\ pc' = "publish"
            /\ UNCHANGED <<map_lock, site, running, ev, burst>>
       ELSE IF ~IsRust(cur.paths[idx])
       THEN /\ RebuildCall("nonrs")
            /\ ev' = [ev EXCEPT !.rebuilds = @ + 1]
            /\ UNCHANGED map_lock
       ELSE /\ map_lock = "free"
            /\ map_lock' = "watcher"
            /\ pc' = "update"
            /\ UNCHANGED <<site, running, ev, burst>>
    /\ UNCHANGED <<config, startup, now, last_update_time, queue, arrived, cur, idx,
                   messages, file_map, result, tail, sess, unpublished>>

\* HotUpdate sending the patches of each file as soon as they are found
HotUpdateEager ==
    /\ pc = "update"
    /\ \E parsed \in Parsed :
         LET r == update_rsx(file_map, cur.paths[idx], parsed) IN
         /\ file_map' = r.map
         /\ CASE r.kind = "UpdatedRsx" ->
                   /\ messages' = messages \o r.msgs
                   /\ ev' = [ev EXCEPT !.updates = @ + 1, !.patched = @ + 1,
                                       !.yielded = @ \o r.msgs,
                                       !.hot = @ + Len(r.msgs),
                                       !.sent = @ \o r.msgs]
                   /\ burst' = Dispatch(cur.stamp)
                   /\ map_lock' = "free"
                   /\ idx' = idx + 1
                   /\ pc' = "loop"
                   /\ UNCHANGED <<site, running>>
              [] r.kind = "NeedsRebuild" ->
                   /\ RebuildCall("needs")
                   /\ ev' = [ev EXCEPT !.updates = @ + 1, !.rebuilds = @ + 1]
                   /\ UNCHANGED <<messages, map_lock, idx>>
              [] r.kind = "Err" ->
                   /\ ev' = [ev EXCEPT !.updates = @ + 1, !.errs = @ + 1]
                   /\ burst' = Dispatch(cur.stamp)
                   /\ map_lock' = "free"
                   /\ idx' = idx + 1
                   /\ pc' = "loop"
                   /\ UNCHANGED <<messages, site, running>>
    /\ UNCHANGED <<config, startup, now, last_update_time, queue, arrived, cur, result,
                   tail, sess, unpublished>>

\* HotUpdate giving up the rest of the batch on an update error
HotUpdateErrStops ==
    /\ pc = "update"
    /\ \E parsed \in Parsed :
         LET r == update_rsx(file_map, cur.paths[idx], parsed) IN
         /\ file_map' = r.map
         /\ CASE r.kind = "UpdatedRsx" ->
                   /\ messages' = messages \o r.msgs
                   /\ ev' = [ev EXCEPT !.updates = @ + 1, !.patched = @ + 1,
                                       !.yielded = @ \o r.msgs]
                   /\ burst' = Dispatch(cur.stamp)
                   /\ map_lock' = "free"
                   /\ idx' = idx + 1
                   /\ pc' = "loop"
                   /\ UNCHANGED <<site, running>>
              [] r.kind = "NeedsRebuild" ->
                   /\ RebuildCall("needs")
                   /\ ev' = [ev EXCEPT !.updates = @ + 1, !.rebuilds = @ + 1]
                   /\ UNCHANGED <<messages, map_lock, idx>>
              [] r.kind = "Err" ->
                   /\ ev' = [ev EXCEPT !.updates = @ + 1, !.errs = @ + 1]
                   /\ burst' = Dispatch(cur.stamp)
                   /\ map_lock' = "free"
                   /\ pc' = "stamp"
                   /\ UNCHANGED <<messages, site, running, idx>>
    /\ UNCHANGED <<config, startup, now, last_update_time, queue, arrived, cur, result,
                   tail, sess, unpublished>>

\* HotUpdate dropping the guard before it calls rebuild()
HotUpdateUnlocksFirst ==
    /\ pc = "update"
    /\ \E parsed \in Parsed :
         LET r == update_rsx(file_map, cur.paths[idx], parsed) IN
         /\ file_map' = r.map
         /\ CASE r.kind = "UpdatedRsx" ->
                   /\ messages' = messages \o r.msgs
                   /\ ev' = [ev EXCEPT !.updates = @ + 1, !.patched = @ + 1,
                                       !.yielded = @ \o r.msgs]
                   /\ burst' = Dispatch(cur.stamp)
                   /\ map_lock' = "free"
                   /\ idx' = idx + 1
                   /\ pc' = "loop"
                   /\ UNCHANGED <<site, running>>
              [] r.kind = "NeedsRebuild" ->
                   /\ RebuildCall("needs")
                   /\ ev' = [ev EXCEPT !.updates = @ + 1, !.rebuilds = @ + 1]
                   /\ map_lock' = "free"
                   /\ UNCHANGED <<messages, idx>>
              [] r.kind = "Err" ->
                   /\ ev' = [ev EXCEPT !.updates = @ + 1, !.errs = @ + 1]
                   /\ burst' = Dispatch(cur.stamp)
                   /\ map_lock' = "free"
                   /\ idx' = idx + 1
                   /\ pc' = "loop"
                   /\ UNCHANGED <<messages, site, running>>
    /\ UNCHANGED <<config, startup, now, last_update_time, queue, arrived, cur, result,
                   tail, sess, unpublished>>

\* match map.update_rsx(&path, &config.crate_dir)
HotUpdate ==
    /\ pc = "update"
    /\ \E parsed \in Parsed :
         LET r == update_rsx(file_map, cur.paths[idx], parsed) IN
         /\ file_map' = r.map
         /\ CASE r.kind = "UpdatedRsx" ->
                   /\ messages' = messages \o r.msgs
                   /\ ev' = [ev EXCEPT !.updates = @ + 1, !.patched = @ + 1,
                                       !.yielded = @ \o r.msgs]
                   /\ burst' = Dispatch(cur.stamp)
                   /\ map_lock' = "free"
                   /\ idx' = idx + 1
                   /\ pc' = "loop"
                   /\ UNCHANGED <<site, running>>
              [] r.kind = "NeedsRebuild" ->
                   /\ RebuildCall("needs")
                   /\ ev' = [ev EXCEPT !.updates = @ + 1, !.rebuilds = @ + 1]
                   /\ UNCHANGED <<messages, map_lock, idx>>
              [] r.kind = "Err" ->
                   /\ ev' = [ev EXCEPT !.updates = @ + 1, !.errs = @ + 1]
                   /\ burst' = Dispatch(cur.stamp)
                   /\ map_lock' = "free"
                   /\ idx' = idx + 1
                   /\ pc' = "loop"
                   /\ UNCHANGED <<messages, site, running>>
    /\ UNCHANGED <<config, startup, now, last_update_time, queue, arrived, cur, result,
                   tail, sess, unpublished>>

\* HotAfterRebuild going on with the next path instead of returning
HotAfterRebuildContinues ==
    /\ pc = "ret"
    /\ site \in {"nonrs", "needs"}
    /\ map_lock' = IF site = "needs" THEN "free" ELSE map_lock
    /\ idx' = idx + 1
    /\ pc' = "loop"
    /\ UNCHANGED <<config, startup, now, last_update_time, queue, arrived,
                   cur, messages, file_map, site, result, ev, running, tail,
                   sess, burst, unpublished>>

\* HotAfterRebuild leaving the loop instead of the callback
HotAfterRebuildBreaks ==
    /\ pc = "ret"
    /\ site \in {"nonrs", "needs"}
    /\ map_lock' = IF site = "needs" THEN "free" ELSE map_lock
    /\ pc' = "publish"
    /\ UNCHANGED <<config, startup, now, last_update_time, queue, arrived,
                   cur, idx, messages, file_map, site, result, ev, running,
                   tail, sess, burst, unpublished>>

\* the return that follows either rebuild() of the hot-reload callback; the
\* lock guard, when one is alive, is dropped
HotAfterRebuild ==
    /\ pc = "ret"
    /\ site \in {"nonrs", "needs"}
    /\ map_lock' = IF site = "needs" THEN "free" ELSE map_lock
    /\ Return
    /\ UNCHANGED <<config, startup, now, last_update_time, queue, arrived, file_map,
                   running, tail, sess, burst, unpublished>>

\* HotPublish sending the first accumulated message only
HotPublishFirstOnly ==
    /\ pc = "publish"
    /\ LET first == IF messages = <<>> THEN <<>> ELSE <<Head(messages)>> IN
       ev' = [ev EXCEPT !.hot = @ + Len(first), !.sent = @ \o first]
    /\ pc' = "stamp"
    /\ UNCHANGED <<config, startup, now, last_update_time, queue, arrived, cur, idx,
                   messages, file_map, map_lock, site, result, running, tail,
                   sess, burst, unpublished>>

\* for msg in messages { let _ = hot_reload_tx.send(msg); }
HotPublish ==
    /\ pc = "publish"
    /\ ev' = [ev EXCEPT !.hot = @ + Len(messages), !.sent = @ \o messages]
    /\ pc' = "stamp"
    /\ UNCHANGED <<config, startup, now, last_update_time, queue, arrived, cur, idx,
                   messages, file_map, map_lock, site, result, running, tail,
                   sess, burst, unpublished>>

\* last_update_time = chrono::Local::now().timestamp()
HotStamp ==
    /\ pc = "stamp"
    /\ last_update_time' = now
    /\ Return
    /\ UNCHANGED <<config, startup, now, queue, arrived, file_map, map_lock, running,
                   tail, sess, burst, unpublished>>

\* ------------------------------------------------------------ ws_handler
\* let mut rx = state.update.subscribe()
WsConnect(s) ==
    /\ sess[s].st = "closed"
    /\ sess' = [sess EXCEPT ![s] = [st |-> "recv", next |-> tail,
                                     sub |-> tail, sent |-> 0,
                                     prompt |-> TRUE]]
    /\ UNCHANGED <<config, startup, now, arrived, tail>>
    /\ UNCHANGED watcherVars

\* the receiver missed messages: more than Capacity were sent since `next`
Lagged(s) == tail - sess[s].next > Capacity

\* WsRecv reading through one cursor shared by all receivers
WsRecvShared(s) ==
    /\ sess[s].st = "recv"
    /\ IF Lagged(s)
       THEN sess' = [sess EXCEPT ![s].st = "panicked"]
       ELSE /\ sess[s].next < tail
            /\ sess' = [t \in Sessions |->
                 IF t = s
                 THEN [sess[t] EXCEPT !.st = "send", !.next = @ + 1]
                 ELSE IF sess[t].st = "recv" /\ sess[t].next < tail
                      THEN [sess[t] EXCEPT !.next = @ + 1]
                      ELSE sess[t]]
    /\ UNCHANGED <<config, startup, now, arrived, tail>>
    /\ UNCHANGED watcherVars

\* rx.recv().await.unwrap(): a message is taken, or the Lagged error panics
\* the task, which drops the receiver and the socket
WsRecv(s) ==
    /\ sess[s].st = "recv"
    /\ IF Lagged(s)
       THEN sess' = [sess EXCEPT ![s].st = "panicked"]
       ELSE /\ sess[s].next < tail
            /\ sess' = [sess EXCEPT ![s].st = "send", ![s].next = @ + 1]
    /\ UNCHANGED <<config, startup, now, arrived, tail>>
    /\ UNCHANGED watcherVars

\* WsSendOk whose new receiver starts again at the message just forwarded
WsSendOkRewinds(s) ==
    /\ sess[s].st = "send"
    /\ sess' = [sess EXCEPT ![s].st = "recv", ![s].next = @ - 1,
                            ![s].sent = @ + 1]
    /\ UNCHANGED <<config, startup, now, arrived, tail>>
    /\ UNCHANGED watcherVars

\* socket.send(Message::Text("reload")) succeeded; rx = rx.resubscribe()
WsSendOk(s) ==
    /\ sess[s].st = "send"
    /\ sess' = [sess EXCEPT ![s].st = "recv", ![s].next = tail,
                            ![s].sent = @ + 1]
    /\ UNCHANGED <<config, startup, now, arrived, tail>>
    /\ UNCHANGED watcherVars

\* WsSendErr ignoring the error and going back to recv()
WsSendErrContinues(s) ==
    /\ sess[s].st = "send"
    /\ sess' = [sess EXCEPT ![s].st = "recv"]
    /\ UNCHANGED <<config, startup, now, arrived, tail>>
    /\ UNCHANGED watcherVars

\* socket.send(..).await.is_err(): break
WsSendErr(s) ==
    /\ sess[s].st = "send"
    /\ sess' = [sess EXCEPT ![s].st = "done"]
    /\ UNCHANGED <<config, startup, now, arrived, tail>>
    /\ UNCHANGED watcherVars

Next ==
    \/ Tick
    \/ Arrive
    \/ WatcherDeliver
    \/ PlainCheck
    \/ PlainAfterRebuild
    \/ HotCheck
    \/ HotLoop
    \/ HotUpdate
    \/ HotAfterRebuild
    \/ HotPublish
    \/ HotStamp
    \/ Build
    \/ RegenDevPage
    \/ ReloadSend
    \/ \E s \in Sessions : WsConnect(s)
    \/ \E s \in Sessions : WsRecv(s)
    \/ \E s \in Sessions : WsSendOk(s)
    \/ \E s \in Sessions : WsSendErr(s)

Spec == Init /\ [][Next]_vars

\* the watcher alone: no websocket session connects
NextWatcher ==
    \/ Tick
    \/ Arrive
    \/ WatcherDeliver
    \/ PlainCheck
    \/ PlainAfterRebuild
    \/ HotCheck
    \/ HotLoop
    \/ HotUpdate
    \/ HotAfterRebuild
    \/ HotPublish
    \/ HotStamp
    \/ Build
    \/ RegenDevPage
    \/ ReloadSend

SpecWatcher == Init /\ [][NextWatcher]_vars

\* serve_default: the plain watcher together with the websocket sessions
InitDefault == Init /\ ~hot_reload

NextDefault ==
    \/ Tick
    \/ Arrive
    \/ WatcherDeliver
    \/ PlainCheck
    \/ PlainAfterRebuild
    \/ Build
    \/ RegenDevPage
    \/ ReloadSend
    \/ \E s \in Sessions : WsConnect(s)
    \/ \E s \in Sessions : WsRecv(s)
    \/ \E s \in Sessions : WsSendOk(s)
    \/ \E s \in Sessions : WsSendErr(s)

SpecDefault == InitDefault /\ [][NextDefault]_vars

\* ------------------------------------------------------------ properties
\* C1: of the events whose debounce check reads the same one-second
\* timestamp, at most one is dispatched (calls rebuild() or update_rsx()).
DebounceIdempotence == burst.n <= 1

\* C2: a change event that arrived while a rebuild was executing is never
\* dropped: when its turn comes the callback goes on to rebuild (plain
\* watcher) or to process its paths (hot-reload watcher).
NoLostTrailingRebuild ==
    [][(pc = "check" /\ cur.ok /\ cur.trailing /\ pc' # "check")
         => pc' \in {"build", "loop"}]_vars

\* C3: no two executions of BuildManager::rebuild overlap.
AtMostOneRebuild == running <= 1

\* a rebuild is executing while an event that arrived meanwhile is waiting
RebuildWithPendingEvent == running = 1 /\ pc = "build" /\ queue # <<>>

\* C4: a FullReload is sent only after builder::build returned Ok and, when
\* reload_html is set, after regen_dev_page; none is sent while the build
\* runs; a rebuild that returns Ok has sent exactly one.
FullReloadAfterBuild ==
    /\ ev.reloads <= ev.builds_ok
    /\ reload_html => ev.reloads <= ev.regens
    /\ pc = "build" => ev.reloads = 0
    /\ (pc = "ret" /\ result = "Ok") => (ev.reloads = 1 /\ ev.builds_ok = 1)

\* a rebuild returned Ok after regenerating the page and sending the reload
RebuildOkWithRegen ==
    pc = "ret" /\ result = "Ok" /\ reload_html /\ ev.regens = 1
    /\ ev.reloads = 1

\* C5: a rebuild whose build failed returns Err having sent no FullReload,
\* and whenever no rebuild is executing the number of FullReload sent equals
\* the number of successful builds.
NoReloadOnBuildError ==
    /\ (pc = "ret" /\ result = "Err") => (ev.reloads = 0 /\ ev.rebuilds = 1)
    /\ running = 0 => unpublished = 0

\* a rebuild returned the build error
RebuildReturnedErr == pc = "ret" /\ result = "Err" /\ ev.rebuilds = 1

\* C6: in the hot-reload watcher an event all of whose paths are source
\* files with patchable changes ends with exactly the patches its index
\* updates yielded sent on hot_reload_tx, no rebuild and no FullReload; an
\* event whose index update yields NeedsRebuild ends with one rebuild, one
\* FullReload if the build succeeded (none otherwise) and no hot patch.
HotReloadDispatch ==
    /\ (pc = "stamp" /\ cur.ok)
          => /\ ev.sent = ev.yielded
             /\ ev.hot = Len(ev.yielded)
             /\ ev.rebuilds = 0
             /\ ev.reloads = 0
    /\ (pc = "ret" /\ site = "needs")
          => /\ ev.rebuilds = 1
             /\ ev.reloads = (IF result = "Ok" THEN 1 ELSE 0)
             /\ ev.hot = 0
             /\ ev.sent = <<>>

\* after an earlier event patched a.rs from "x" to "y", a structural change
\* has been rebuilt and its FullReload sent
PatchThenStructuralRebuild ==
    /\ pc = "ret" /\ site = "needs" /\ result = "Ok"
    /\ Len(cur.paths) = 1 /\ cur.paths[1] = "a.rs"
    /\ file_map["a.rs"] = "y"
    /\ ev.reloads = 1

\* C7: update_rsx is called only for a path with the "rs" extension, and
\* the loop sends a "rs" path to the index and any other path straight to
\* rebuild(), without taking the lock or touching file_map.
RoutingByFileKind ==
    [][/\ ev'.updates > ev.updates => cur.paths[idx] \in RustFiles
       /\ (pc = "loop" /\ pc' # "loop" /\ idx <= Len(cur.paths))
            => IF cur.paths[idx] \in RustFiles
               THEN pc' = "update" /\ ev'.rebuilds = ev.rebuilds
               ELSE /\ pc' = "build" /\ site' = "nonrs"
                    /\ ev'.rebuilds = ev.rebuilds + 1
                    /\ ev'.updates = ev.updates
                    /\ file_map' = file_map
                    /\ map_lock' = map_lock]_vars

\* an event carrying a source file and then an asset: the first went to the
\* index, the second is being rebuilt
SourceThenAssetRouted ==
    /\ pc = "build" /\ site = "nonrs" /\ idx = 2
    /\ cur.paths[1] \in RustFiles
    /\ ev.updates = 1 /\ ev.rebuilds = 1

\* C8: hot-patch messages are sent only when every path of the event has
\* been passed to the index; none is sent while paths remain.
BatchCoalescing ==
    /\ pc \in {"loop", "update", "publish"} => (ev.hot = 0 /\ ev.sent = <<>>)
    /\ ev.hot > 0 => /\ pc = "stamp"
                     /\ idx = Len(cur.paths) + 1
                     /\ ev.updates = Len(cur.paths)

\* the patches of two different files of one event were sent in one burst
TwoFilesOneBurst ==
    /\ pc = "stamp" /\ Len(cur.paths) = 2 /\ Len(ev.sent) = 2
    /\ ev.sent[1].file # ev.sent[2].file

\* C9: an update_rsx error leaves file_map as it was and the loop goes on
\* to the next path; the patches of the other files are sent all the same.
ParseFailureIsolation ==
    [][/\ (pc = "update" /\ ev'.errs > ev.errs)
            => /\ file_map' = file_map
               /\ messages' = messages
               /\ pc' = "loop"
               /\ idx' = idx + 1
       /\ (pc = "publish" /\ pc' = "stamp" /\ ev.errs > 0)
            => /\ ev'.sent = ev.yielded
               /\ ev.updates = Len(cur.paths)]_vars

\* the first file of a batch failed to parse and the patch of the second
\* was sent
ErrThenPatchSent ==
    /\ pc = "stamp" /\ Len(cur.paths) = 2 /\ ev.errs = 1
    /\ Len(ev.sent) = 1 /\ ev.sent[1].file = cur.paths[2]

\* C10: a session whose read reports missed messages is not terminated: it
\* goes on to send "reload" to its client.
LagRecovery ==
    [][\A s \in Sessions :
         (sess[s].st = "recv" /\ Lagged(s) /\ sess'[s] # sess[s])
            => sess'[s].st = "send"]_vars

\* C11: a session that had read everything at every publication has been
\* handed every message published since it subscribed, one position after
\* the other, and never sees a lag, whatever the other sessions do; a
\* session that fell more than Capacity behind is the one that gets the lag.
BroadcastIsolation ==
    \A s \in Sessions :
       /\ (sess[s].prompt /\ sess[s].st \in {"recv", "send"})
            => /\ ~Lagged(s)
               /\ tail - sess[s].next <= 1
               /\ sess[s].sent + (IF sess[s].st = "send" THEN 1 ELSE 0)
                    + (tail - sess[s].next) = tail - sess[s].sub
       /\ sess[s].st = "panicked" => (Lagged(s) /\ ~sess[s].prompt)

\* one session overflowed while the other was forwarded all the messages
LaggedBesidePrompt ==
    \E s1, s2 \in Sessions :
       /\ s1 # s2
       /\ sess[s1].st = "panicked"
       /\ sess[s2].prompt /\ CaughtUp(s2)
       /\ sess[s2].sub = sess[s1].sub
       /\ sess[s2].sent = tail - sess[s2].sub
       /\ sess[s2].sent > Capacity
\* C12: a failed send ends that session's task for good, without a retry,
\* and changes nothing else: the other sessions, the channel and the
\* watcher are as they were.
TransportErrorIsolation ==
    [][\A s \in Sessions :
         /\ (sess[s].st = "send" /\ sess'[s].st # "send"
               /\ sess'[s].sent = sess[s].sent)
              => /\ sess'[s].st = "done"
                 /\ \A t \in Sessions \ {s} : sess'[t] = sess[t]
                 /\ tail' = tail
                 /\ pc' = pc /\ queue' = queue /\ running' = running
                 /\ last_update_time' = last_update_time
         /\ sess[s].st = "done" => sess'[s] = sess[s]]_vars

\* a message published after one session's send had failed was forwarded
\* by the other session
OtherSessionServedAfterFailure ==
    \E s1, s2 \in Sessions :
       /\ s1 # s2
       /\ sess[s1].st = "done" /\ sess[s1].prompt /\ tail > sess[s1].next
       /\ sess[s2].prompt /\ CaughtUp(s2)
       /\ sess[s2].sub <= sess[s1].next
       /\ sess[s2].sent = tail - sess[s2].sub

\* C20: a session has sent at most as many "reload" signals as FullReload
\* messages were published since it subscribed, the one it is sending
\* included.
NoSpuriousReloads ==
    \A s \in Sessions :
       sess[s].sent + (IF sess[s].st = "send" THEN 1 ELSE 0)
          <= tail - sess[s].sub

\* a session that forwarded one of two messages: the other one was
\* discarded by its resubscribe()
ReloadDiscardedByResubscribe ==
    \E s \in Sessions :
       CaughtUp(s) /\ sess[s].sent = 1 /\ tail - sess[s].sub = 2
\* the session whose task is never scheduled after it subscribed
Subscriber == CHOOSE s \in Sessions : TRUE

\* both watchers beside a subscriber that never reads
NextPublish ==
    \/ NextWatcher
    \/ WsConnect(Subscriber)

SpecPublish == Init /\ [][NextPublish]_vars
\* C13: a send on either channel is never refused: it can always be taken,
\* with no subscriber (nothing is stored) as with a subscriber that lags,
\* and a rebuild whose build succeeded returns Ok.
PublishNeverBlocks ==
    /\ pc = "send" => ENABLED ReloadSend
    /\ pc = "publish" => ENABLED HotPublish
    /\ (pc = "ret" /\ ev.builds_ok = 1) => (result = "Ok" /\ ev.reloads = 1)
    /\ pc = "stamp" /\ cur.ok => ev.hot = Len(messages)
    /\ (\A s \in Sessions : sess[s].st = "closed") => tail = 0

\* a rebuild returned Ok after its send overflowed a subscriber's backlog
PublishedPastLaggingSubscriber ==
    /\ pc = "ret" /\ result = "Ok"
    /\ \E s \in Sessions : sess[s].st = "recv" /\ Lagged(s)
\* ------------------------------------------------------- watcher set-up
\* allow_watch_path: one to MaxRoots roots, each of which can or cannot be
\* registered
WatchPaths == UNION {[1..n -> BOOLEAN] : n \in 1..MaxRoots}

InitSetup ==
    /\ InitServer
    /\ phase = "setup"
    /\ watch_ok \in WatchPaths
    /\ sub_path = 1
    /\ watched = {}

\* setup_file_watcher: watcher.watch(..).unwrap() for the next root
PlainWatch ==
    /\ ~hot_reload
    /\ phase = "setup"
    /\ sub_path <= Len(watch_ok)
    /\ IF watch_ok[sub_path]
       THEN /\ watched' = watched \cup {sub_path}
            /\ sub_path' = sub_path + 1
            /\ UNCHANGED phase
       ELSE /\ phase' = "aborted"
            /\ UNCHANGED <<watched, sub_path>>
    /\ UNCHANGED <<config, watch_ok, now, last_update_time, queue, arrived,
                   pc, file_map, map_lock, running, tail, sess, burst,
                   unpublished>>
    /\ UNCHANGED locals

\* setup_file_watcher_hot_reload: if let Err(err) = watcher.watch(..) { log }
HotWatch ==
    /\ hot_reload
    /\ phase = "setup"
    /\ sub_path <= Len(watch_ok)
    /\ watched' = IF watch_ok[sub_path] THEN watched \cup {sub_path}
                  ELSE watched
    /\ sub_path' = sub_path + 1
    /\ UNCHANGED <<config, phase, watch_ok, now, last_update_time, queue,
                   arrived, pc, file_map, map_lock, running, tail, sess,
                   burst, unpublished>>
    /\ UNCHANGED locals

\* Ok(watcher): the set-up returns and the server goes on to serve
SetupDone ==
    /\ phase = "setup"
    /\ sub_path > Len(watch_ok)
    /\ phase' = "serving"
    /\ UNCHANGED <<config, watch_ok, sub_path, watched, now,
                   last_update_time, queue, arrived, pc, file_map, map_lock,
                   running, tail, sess, burst, unpublished>>
    /\ UNCHANGED locals

NextSetup ==
    \/ PlainWatch
    \/ HotWatch
    \/ SetupDone

SpecSetup == InitSetup /\ [][NextSetup]_vars

\* C14: a session that has a published FullReload still to read is alive
\* or ended because a send failed: its task is never lost, so the reload
\* can still reach the client.
ReloadNeverAbandoned ==
    \A s \in Sessions : sess[s].next < tail => sess[s].st # "panicked"

\* C15: when one root cannot be registered and another can, the set-up
\* ends with the server serving and every registrable root watched.
RecoverableWatchError ==
    (/\ phase # "setup"
     /\ \E i \in DOMAIN watch_ok : ~watch_ok[i]
     /\ \E j \in DOMAIN watch_ok : watch_ok[j])
       => /\ phase = "serving"
          /\ watched = {j \in DOMAIN watch_ok : watch_ok[j]}

\* C16: the server never serves with no root watched.
FatalStartupError == phase = "serving" => watched # {}
\* C17: an event that carries a change is dropped exactly when the clock is
\* not past last_update_time, and when the callback ends after it
\* dispatched an event, last_update_time is at least the time at which
\* that event was accepted.
DebouncerStateUpdate ==
    [][/\ (pc = "check" /\ cur.ok /\ pc' # "check")
            => (pc' = "idle" <=> ~(now > last_update_time))
       /\ (pc # "idle" /\ pc' = "idle" /\ ev.rebuilds + ev.updates > 0)
            => last_update_time' >= cur.stamp]_vars

\* C18: the callback calls rebuild() at most once for an event; the call is
\* made for the first path that is not a source file or needs a rebuild,
\* and after it no further path is looked at: the callback returns.
OneRebuildPerEvent ==
    [][/\ ev'.rebuilds <= 1
       /\ (hot_reload /\ ev.rebuilds = 1)
            => /\ ev.updates = (idx - 1) + (IF site = "needs" THEN 1 ELSE 0)
               /\ ev.patched + ev.errs = idx - 1
               /\ \/ pc' = "idle"
                  \/ /\ idx' = idx
                     /\ ev'.rebuilds = 1
                     /\ ev'.updates = ev.updates
                     /\ file_map' = file_map]_vars

\* the rebuild for an asset returned while a source file of the same event
\* was still to come
AssetRebuiltBeforeSource ==
    /\ pc = "ret" /\ site = "nonrs" /\ ev.rebuilds = 1 /\ ev.updates = 0
    /\ cur.paths = <<"c.css", "a.rs">>

\* C19: once the callback called rebuild() for an event, none of the
\* patches it had accumulated is sent on hot_reload_tx, whatever the build
\* returns.
SupersededPatchesUnpublished ==
    ev.rebuilds > 0 => (ev.hot = 0 /\ ev.sent = <<>>)

\* a failed rebuild returned while a patch, already stored in file_map,
\* was waiting in messages
PatchDroppedByRebuild ==
    /\ pc = "ret" /\ hot_reload /\ result = "Err"
    /\ messages # <<>> /\ ev.sent = <<>>
    /\ messages[1].val = "y"
    /\ file_map[messages[1].file] = "y"
\* another holder of the Arc<Mutex<FileMap>>: hot_reload_state keeps a clone
\* of file_map; lock() is granted only while the mutex is free
HandlerLock ==
    /\ hot_reload
    /\ map_lock = "free"
    /\ map_lock' = "handler"
    /\ UNCHANGED <<config, startup, now, last_update_time, queue, arrived, cur, pc,
                   idx, messages, file_map, site, result, running, tail, sess,
                   ev, burst, unpublished>>

\* that holder's guard is dropped
HandlerUnlock ==
    /\ map_lock = "handler"
    /\ map_lock' = "free"
    /\ UNCHANGED <<config, startup, now, last_update_time, queue, arrived, cur, pc,
                   idx, messages, file_map, site, result, running, tail, sess,
                   ev, burst, unpublished>>

\* serve_hot_reload: the hot-reload watcher beside the other holder of the
\* file_map mutex
InitLock == Init /\ hot_reload

NextLock ==
    \/ Tick
    \/ Arrive
    \/ WatcherDeliver
    \/ HotCheck
    \/ HotLoop
    \/ HotUpdate
    \/ HotAfterRebuild
    \/ HotPublish
    \/ HotStamp
    \/ Build
    \/ RegenDevPage
    \/ ReloadSend
    \/ HandlerLock
    \/ HandlerUnlock

SpecLock == InitLock /\ [][NextLock]_vars

\* the positions of the callback inside rebuild() and at its return
InRebuild == pc \in {"build", "regen", "send", "ret"}

\* C21: the watcher holds the file_map lock exactly while it handles one
\* source path: from lock() until update_rsx returned a patch or an error,
\* or, when update_rsx returned NeedsRebuild, until that rebuild() returned.
\* It holds no lock while it sends the messages, stamps the time or rebuilds
\* for a file that is no source file, and during the rebuild for
\* NeedsRebuild no other holder can take the lock.
IndexLockScope ==
    /\ map_lock = "watcher" <=> (pc = "update" \/ (InRebuild /\ site = "needs"))
    /\ (pc \in {"publish", "stamp"} \/ (InRebuild /\ site = "nonrs"))
         => map_lock # "watcher"
    /\ (InRebuild /\ site = "needs") => ~ENABLED HandlerLock

\* the rebuild for the second path of an event returned under the lock,
\* after the lock taken for the first path had been given back
NeedsRebuildUnderLock ==
    /\ pc = "ret" /\ site = "needs" /\ idx = 2
    /\ map_lock = "watcher"
    /\ ev.patched = 1
====
